---- MODULE Spec2Model ----
(***************************************************************************)
(* A model of components/AnalysisResult.tsx: the extraction of the hidden  *)
(* sentiment JSON block from the report text (the useMemo at the top of    *)
(* the component), the two download handlers, getPieStyle and the          *)
(* line-oriented markdown renderer renderFormattedText.                    *)
(*                                                                         *)
(* A text is a sequence of one-element strings.  Ordinary characters stand *)
(* for themselves; a few multi-character tokens the code looks for as a    *)
(* whole (the backtick fence, the word json, a JSON string or number       *)
(* literal) are one element each.                                          *)
(***************************************************************************)
EXTENDS Integers, Sequences, FiniteSets, TLC

VARIABLES rawText, universityName, scrapedJson,
          cleanText, sentimentData, logged,
          blocks, pie, download, phase, pass

vars == <<rawText, universityName, scrapedJson, cleanText, sentimentData,
          logged, blocks, pie, download, phase, pass>>

---------------------------------------------------------------------------
(* Text helpers: what the String methods used by the component do.         *)

\* the three backticks of a code fence, one element
BT == "<fence>"
JSONWORD == "json"
KEY == "\"sentiment_distribution\""
DASH == "-"
NL == "\n"

\* what \s and String.prototype.trim treat as white space
WhiteSpace == {" ", "\n", "\t"}

\* the length of the dash string of the clean-up regex
SepLen == 50

Min(S) == CHOOSE m \in S : \A o \in S : m <= o

\* the first position >= p that holds no white space (Len(s)+1 when none)
RECURSIVE SkipWs(_, _)
SkipWs(s, p) ==
    IF p > Len(s) \/ s[p] \notin WhiteSpace THEN p ELSE SkipWs(s, p + 1)

\* String.prototype.trim
Trim(s) ==
    LET keep == {i \in 1..Len(s) : s[i] \notin WhiteSpace}
    IN  IF keep = {} THEN <<>>
        ELSE SubSeq(s, Min(keep), CHOOSE m \in keep : \A o \in keep : o <= m)

\* s.startsWith(p)
StartsWith(s, p) == Len(p) <= Len(s) /\ SubSeq(s, 1, Len(p)) = p

\* s.endsWith(p)
EndsWith(s, p) ==
    Len(p) <= Len(s) /\ SubSeq(s, Len(s) - Len(p) + 1, Len(s)) = p

\* s.indexOf(p), 1-based, 0 when p does not occur
IndexOf(s, p) ==
    LET hits == {i \in 1..(Len(s) - Len(p) + 1) :
                    SubSeq(s, i, i + Len(p) - 1) = p}
    IN  IF hits = {} THEN 0 ELSE Min(hits)

\* s.replace(p, empty string) with a string pattern: the first occurrence only
ReplaceFirst(s, p) ==
    LET i == IndexOf(s, p)
    IN  IF i = 0 THEN s
        ELSE SubSeq(s, 1, i - 1) \o SubSeq(s, i + Len(p), Len(s))

\* whether SepLen dashes start at position i
SeparatorAt(s, i) ==
    i + SepLen - 1 <= Len(s) /\ \A r \in i..(i + SepLen - 1) : s[r] = DASH

\* s.replace(dash regex, empty string), flag g: scanning left to right,
\* every non-overlapping occurrence of SepLen dashes goes
RECURSIVE RemoveFrom(_, _)
RemoveFrom(s, i) ==
    IF i > Len(s) THEN <<>>
    ELSE IF s[i] = DASH /\ SeparatorAt(s, i) THEN RemoveFrom(s, i + SepLen)
    ELSE <<s[i]>> \o RemoveFrom(s, i + 1)

RemoveSeparators(s) == RemoveFrom(s, 1)

---------------------------------------------------------------------------
(* The regex of the useMemo.                                               *)

NoMatch == [found |-> FALSE, index |-> 0, all |-> <<>>, group |-> <<>>]

\* where fence, json, \s* and "{" start at i, the position of that "{", else 0
OpenAt(s, i) ==
    IF i + 1 <= Len(s) /\ s[i] = BT /\ s[i + 1] = JSONWORD
    THEN LET j == SkipWs(s, i + 2)
         IN  IF j <= Len(s) /\ s[j] = "{" THEN j ELSE 0
    ELSE 0

\* the positions e > k of a "}" that \s* and then a fence follow
CloseAfter(s, k) ==
    {e \in (k + 1)..Len(s) :
        /\ s[e] = "}"
        /\ LET t == SkipWs(s, e + 1) IN t <= Len(s) /\ s[t] = BT}

\* the attempt at start i: lazily to the first key, lazily to the first
\* closing brace that a fence follows
MatchAt(s, i) ==
    LET j == OpenAt(s, i)
        keys == IF j = 0 THEN {} ELSE {k \in (j + 1)..Len(s) : s[k] = KEY}
        ends == UNION {CloseAfter(s, k) : k \in keys}
    IN  IF ends = {} THEN NoMatch
        ELSE LET e == Min(ends)
                 t == SkipWs(s, e + 1)
             IN  [found |-> TRUE, index |-> i,
                  all |-> SubSeq(s, i, t), group |-> SubSeq(s, j, e)]

\* rawText.match(jsonRegex): the leftmost start that matches
JsonRegexMatch(s) ==
    LET starts == {i \in 1..Len(s) : MatchAt(s, i).found}
    IN  IF starts = {} THEN NoMatch ELSE MatchAt(s, Min(starts))

---------------------------------------------------------------------------
(* JSON.parse, on the literals a report can hold.                          *)

\* the string literals (quotes included) and the strings they denote
StrOf == ("\"sentiment_distribution\"" :> "sentiment_distribution") @@
         ("\"5\"" :> "5") @@ ("\"4\"" :> "4") @@ ("\"3\"" :> "3") @@
         ("\"2\"" :> "2") @@ ("\"1\"" :> "1") @@ ("\"a\"" :> "a")

\* the number literals and the numbers they denote
NumOf == ("0" :> 0) @@ ("1" :> 1) @@ ("2" :> 2) @@ ("3" :> 3) @@ ("5" :> 5) @@
         ("10" :> 10) @@ ("80" :> 80) @@ ("100" :> 100)

NoFields == [k \in {} |-> 0]

\* JavaScript values, every kind with the same fields
JNum(n) == [t |-> "number", n |-> n, s |-> "", o |-> NoFields]
JStr(x) == [t |-> "string", n |-> 0, s |-> x, o |-> NoFields]
JObj(f) == [t |-> "object", n |-> 0, s |-> "", o |-> f]
JNull == [t |-> "null", n |-> 0, s |-> "", o |-> NoFields]
Undefined == [t |-> "undefined", n |-> 0, s |-> "", o |-> NoFields]

\* the truthiness test of an if
Truthy(v) ==
    \/ v.t = "object"
    \/ v.t = "number" /\ v.n # 0
    \/ v.t = "string" /\ v.s # ""

\* obj.key, undefined when obj has no such property
Get(v, key) ==
    IF v.t = "object" /\ key \in DOMAIN v.o THEN v.o[key] ELSE Undefined

\* obj[key] = val on a property map (a repeated key: the last one wins)
Put(f, key, val) ==
    [k \in DOMAIN f \cup {key} |-> IF k = key THEN val ELSE f[k]]

SyntaxError == [ok |-> FALSE, val |-> Undefined, next |-> 0]

RECURSIVE ParseValue(_, _), ParseMembers(_, _, _)

\* a JSON value at or after position i, white space skipped
ParseValue(s, i) ==
    LET p == SkipWs(s, i)
    IN  IF p > Len(s) THEN SyntaxError
        ELSE IF s[p] \in DOMAIN NumOf
             THEN [ok |-> TRUE, val |-> JNum(NumOf[s[p]]), next |-> p + 1]
        ELSE IF s[p] = DASH /\ p < Len(s) /\ s[p + 1] \in DOMAIN NumOf
             THEN [ok |-> TRUE, val |-> JNum(0 - NumOf[s[p + 1]]), next |-> p + 2]
        ELSE IF s[p] \in DOMAIN StrOf
             THEN [ok |-> TRUE, val |-> JStr(StrOf[s[p]]), next |-> p + 1]
        ELSE IF s[p] = "null"
             THEN [ok |-> TRUE, val |-> JNull, next |-> p + 1]
        ELSE IF s[p] = "{"
             THEN LET q == SkipWs(s, p + 1)
                  IN  IF q <= Len(s) /\ s[q] = "}"
                      THEN [ok |-> TRUE, val |-> JObj(NoFields), next |-> q + 1]
                      ELSE ParseMembers(s, q, NoFields)
        ELSE SyntaxError

\* the members of an object from position i on, acc the ones read so far:
\* string, colon, value, then a comma and another member or the brace
ParseMembers(s, i, acc) ==
    LET p == SkipWs(s, i)
        c == SkipWs(s, p + 1)
    IN  IF p > Len(s) \/ s[p] \notin DOMAIN StrOf THEN SyntaxError
        ELSE IF c > Len(s) \/ s[c] # ":" THEN SyntaxError
        ELSE LET v == ParseValue(s, c + 1)
                 n == SkipWs(s, v.next)
                 now == Put(acc, StrOf[s[p]], v.val)
             IN  IF ~v.ok \/ n > Len(s) THEN SyntaxError
                 ELSE IF s[n] = "," THEN ParseMembers(s, n + 1, now)
                 ELSE IF s[n] = "}"
                      THEN [ok |-> TRUE, val |-> JObj(now), next |-> n + 1]
                 ELSE SyntaxError

\* JSON.parse(text): ok is FALSE where it throws a SyntaxError
JSONParse(s) ==
    LET v == ParseValue(s, 1)
    IN  IF v.ok /\ SkipWs(s, v.next) = Len(s) + 1 THEN v ELSE SyntaxError

---------------------------------------------------------------------------
(* The useMemo that splits the report into cleanText and sentimentData.    *)

\* a variant of the try block that leaves out the if around the assignment
TryBodyUnguarded(raw, match, parsed) ==
    [cleanText |-> Trim(RemoveSeparators(Trim(ReplaceFirst(raw, match.all)))),
     sentimentData |-> Get(parsed, "sentiment_distribution"),
     logged |-> FALSE]

\* the body of the try block, reached when the parse did not throw
TryBody(raw, match, parsed) ==
    [cleanText |-> Trim(RemoveSeparators(Trim(ReplaceFirst(raw, match.all)))),
     sentimentData |-> IF Truthy(Get(parsed, "sentiment_distribution"))
                       THEN Get(parsed, "sentiment_distribution")
                       ELSE JNull,
     logged |-> FALSE]

\* a variant of the catch block with the separator clean-up done in it too
CatchBodyCleansUp(raw) ==
    [cleanText |-> Trim(RemoveSeparators(raw)), sentimentData |-> JNull,
     logged |-> TRUE]

\* the catch block: console.error, cleanText and sentimentData as they were
CatchBody(raw) ==
    [cleanText |-> raw, sentimentData |-> JNull, logged |-> TRUE]

\* a variant of the memo callback whose cleanText starts as the trimmed text
ExtractSentimentTrimmed(raw) ==
    LET match == JsonRegexMatch(raw)
    IN  IF match.found /\ match.group # <<>>
        THEN LET parsed == JSONParse(match.group)
             IN  IF parsed.ok THEN TryBody(raw, match, parsed.val)
                 ELSE CatchBody(raw)
        ELSE [cleanText |-> Trim(raw), sentimentData |-> JNull, logged |-> FALSE]

\* the memo callback
ExtractSentiment(raw) ==
    LET match == JsonRegexMatch(raw)
    IN  IF match.found /\ match.group # <<>>
        THEN LET parsed == JSONParse(match.group)
             IN  IF parsed.ok THEN TryBody(raw, match, parsed.val)
                 ELSE CatchBody(raw)
        ELSE [cleanText |-> raw, sentimentData |-> JNull, logged |-> FALSE]

---------------------------------------------------------------------------
(* The download handlers.                                                  *)

\* name.replace(white-space regex, "_"), flag g: every maximal run of
\* white space becomes one underscore
RECURSIVE UnderscoreFrom(_, _)
UnderscoreFrom(s, i) ==
    IF i > Len(s) THEN <<>>
    ELSE IF s[i] \in WhiteSpace THEN <<"_">> \o UnderscoreFrom(s, SkipWs(s, i))
    ELSE <<s[i]>> \o UnderscoreFrom(s, i + 1)

\* a variant that replaces every white-space character by itself
FileStemPerCharacter(name) ==
    [i \in 1..Len(name) |-> IF name[i] \in WhiteSpace THEN "_" ELSE name[i]]

\* universityName.replace(white-space regex, "_")
FileStem(name) == UnderscoreFrom(name, 1)

NoDownload == [name |-> <<>>, content |-> <<>>, mime |-> "none"]

---------------------------------------------------------------------------
(* getPieStyle.  An angle is kept in hundredths of a degree, so that       *)
(* (val / 100) * 360 degrees is the whole number val * 360.                *)

Stars == <<"5", "4", "3", "2", "1">>

colors == ("5" :> "#10b981") @@ ("4" :> "#34d399") @@ ("3" :> "#facc15") @@
          ("2" :> "#fb923c") @@ ("1" :> "#f87171")

FullTurn == 360

\* data[star] || 0, for the numeric values Record<string, number> declares
StarValue(data, star) ==
    IF Truthy(Get(data, star)) /\ Get(data, star).t = "number"
    THEN Get(data, star).n ELSE 0

\* a variant that takes the percentage itself for the degrees
SweepInPercent(val) == val * 100

\* (val / 100) * 360, in hundredths of a degree
Sweep(val) == val * FullTurn

\* a variant of the forEach that never adds the sweep to currentDeg
RECURSIVE PiePartsFromZero(_, _, _)
PiePartsFromZero(data, k, currentDeg) ==
    IF k > Len(Stars) THEN <<>>
    ELSE <<[color |-> colors[Stars[k]], from |-> currentDeg,
            to |-> currentDeg + Sweep(StarValue(data, Stars[k]))]>>
         \o PiePartsFromZero(data, k + 1, currentDeg)

\* the forEach over the stars from the k-th on, currentDeg the running angle
RECURSIVE PieParts(_, _, _)
PieParts(data, k, currentDeg) ==
    IF k > Len(Stars) THEN <<>>
    ELSE LET deg == Sweep(StarValue(data, Stars[k]))
         IN  <<[color |-> colors[Stars[k]], from |-> currentDeg,
                to |-> currentDeg + deg]>>
             \o PieParts(data, k + 1, currentDeg + deg)

getPieStyle(data) == PieParts(data, 1, 0)

---------------------------------------------------------------------------
(* renderFormattedText.                                                    *)

STAR == "*"
HASH == "#"
\* the em dash (U+2014), one element
EMDASH == "<emdash>"

\* text.split(newline)
RECURSIVE SplitLines(_)
SplitLines(s) ==
    LET i == IndexOf(s, <<NL>>)
    IN  IF i = 0 THEN <<s>>
        ELSE <<SubSeq(s, 1, i - 1)>> \o SplitLines(SubSeq(s, i + 1, Len(s)))

\* what the dot of a regex matches: anything but a line terminator
Dot(c) == c \notin {"\n", "\r"}

\* whether two asterisks stand at position i
BoldMark(s, i) == i + 1 <= Len(s) /\ s[i] = STAR /\ s[i + 1] = STAR

\* the positions j of a closing pair for an opening pair at i, with only
\* dot characters between
BoldEnds(s, i) ==
    {j \in (i + 2)..(Len(s) - 1) :
        BoldMark(s, j) /\ \A r \in (i + 2)..(j - 1) : Dot(s[r])}

\* content.split(bold regex with its capture group), flag g, from position
\* p on: the text before a match, the match, and so on, then the rest
RECURSIVE SplitBold(_, _)
SplitBold(s, p) ==
    LET starts == {i \in p..Len(s) : BoldMark(s, i) /\ BoldEnds(s, i) # {}}
    IN  IF starts = {} THEN <<SubSeq(s, p, Len(s))>>
        ELSE LET i == Min(starts)
                 j == Min(BoldEnds(s, i))
             IN  <<SubSeq(s, p, i - 1), SubSeq(s, i, j + 1)>>
                 \o SplitBold(s, j + 2)

\* part.slice(2, -2)
Slice2(part) == IF Len(part) - 2 <= 2 THEN <<>> ELSE SubSeq(part, 3, Len(part) - 2)

\* one element of parts.map: <strong> or the part itself
Span(part) ==
    IF StartsWith(part, <<STAR, STAR>>) /\ EndsWith(part, <<STAR, STAR>>)
    THEN [strong |-> TRUE, text |-> Slice2(part)]
    ELSE [strong |-> FALSE, text |-> part]

Spans(content) ==
    LET parts == SplitBold(content, 1)
    IN  [i \in 1..Len(parts) |-> Span(parts[i])]

\* trimLine.replace(bullet regex, empty string): one leading marker and
\* the white space after it
StripMarker(trimLine) == SubSeq(trimLine, SkipWs(trimLine, 2), Len(trimLine))

\* a variant that classifies the line as it is, untrimmed
RenderLineUntrimmed(line) ==
    IF StartsWith(line, <<HASH, " ">>)
    THEN [kind |-> "h1", text |-> ReplaceFirst(line, <<HASH, " ">>),
          spans |-> <<>>]
    ELSE IF StartsWith(line, <<HASH, HASH, " ">>)
    THEN [kind |-> "h2", text |-> ReplaceFirst(line, <<HASH, HASH, " ">>),
          spans |-> <<>>]
    ELSE IF StartsWith(line, <<HASH, HASH, HASH, " ">>)
    THEN [kind |-> "h3", text |-> ReplaceFirst(line, <<HASH, HASH, HASH, " ">>),
          spans |-> <<>>]
    ELSE IF \/ StartsWith(line, <<DASH, " ">>)
            \/ StartsWith(line, <<STAR, " ">>)
            \/ StartsWith(line, <<EMDASH, " ">>)
    THEN [kind |-> "li", text |-> <<>>, spans |-> Spans(StripMarker(line))]
    ELSE IF line = <<>>
    THEN [kind |-> "spacer", text |-> <<>>, spans |-> <<>>]
    ELSE [kind |-> "p", text |-> <<>>, spans |-> Spans(line)]

\* the element one line maps to
RenderLine(line) ==
    LET trimLine == Trim(line)
    IN  IF StartsWith(trimLine, <<HASH, " ">>)
        THEN [kind |-> "h1", text |-> ReplaceFirst(trimLine, <<HASH, " ">>),
              spans |-> <<>>]
        ELSE IF StartsWith(trimLine, <<HASH, HASH, " ">>)
        THEN [kind |-> "h2",
              text |-> ReplaceFirst(trimLine, <<HASH, HASH, " ">>),
              spans |-> <<>>]
        ELSE IF StartsWith(trimLine, <<HASH, HASH, HASH, " ">>)
        THEN [kind |-> "h3",
              text |-> ReplaceFirst(trimLine, <<HASH, HASH, HASH, " ">>),
              spans |-> <<>>]
        ELSE IF \/ StartsWith(trimLine, <<DASH, " ">>)
                \/ StartsWith(trimLine, <<STAR, " ">>)
                \/ StartsWith(trimLine, <<EMDASH, " ">>)
        THEN [kind |-> "li", text |-> <<>>,
              spans |-> Spans(StripMarker(trimLine))]
        ELSE IF trimLine = <<>>
        THEN [kind |-> "spacer", text |-> <<>>, spans |-> <<>>]
        ELSE [kind |-> "p", text |-> <<>>, spans |-> Spans(trimLine)]

renderFormattedText(text) ==
    LET lines == SplitLines(text)
    IN  [i \in 1..Len(lines) |-> RenderLine(lines[i])]

---------------------------------------------------------------------------
(* The component as a state machine.  phase is "props" once a result has   *)
(* been handed in, "memoized" once the useMemo callback has run for its    *)
(* rawText, and "rendered" once the JSX has been built from the memo.      *)

\* the useMemo callback runs for the rawText handed in
Memoize ==
    /\ phase = "props"
    /\ LET r == ExtractSentiment(rawText)
       IN  /\ cleanText' = r.cleanText
           /\ sentimentData' = r.sentimentData
           /\ logged' = r.logged
    /\ phase' = "memoized"
    /\ UNCHANGED <<rawText, universityName, scrapedJson, blocks, pie,
                   download, pass>>

\* the JSX of the return statement: the pie when there is sentiment data,
\* and the formatted report
Paint ==
    /\ phase = "memoized"
    /\ pie' = IF Truthy(sentimentData) THEN getPieStyle(sentimentData) ELSE <<>>
    /\ blocks' = renderFormattedText(cleanText)
    /\ phase' = "rendered"
    /\ UNCHANGED <<rawText, universityName, scrapedJson, cleanText,
                   sentimentData, logged, download, pass>>

\* a click on the text download button
downloadTxt ==
    /\ phase = "rendered"
    /\ download' = [name |-> FileStem(universityName) \o <<"_Analysis.txt">>,
                    content |-> cleanText, mime |-> "text/plain"]
    /\ UNCHANGED <<rawText, universityName, scrapedJson, cleanText,
                   sentimentData, logged, blocks, pie, phase, pass>>

\* a click on the JSON download button
downloadJson ==
    /\ phase = "rendered"
    /\ download' = [name |-> FileStem(universityName) \o <<"_Data.json">>,
                    content |-> scrapedJson, mime |-> "application/json"]
    /\ UNCHANGED <<rawText, universityName, scrapedJson, cleanText,
                   sentimentData, logged, blocks, pie, phase, pass>>

\* the number of times the extraction is run in a row on its own output
MaxPasses == 2

\* a new result whose rawText is the text just shown: the memo is keyed on
\* rawText and is computed again
Reextract ==
    /\ phase = "rendered"
    /\ pass < MaxPasses
    /\ rawText' = cleanText
    /\ pass' = pass + 1
    /\ phase' = "props"
    /\ UNCHANGED <<universityName, scrapedJson, cleanText, sentimentData,
                   logged, blocks, pie, download>>

---------------------------------------------------------------------------
(* Inputs.                                                                 *)

\* a fenced json block around a body, each fence on a line of its own
Fence(body) == <<BT, JSONWORD, NL>> \o body \o <<NL, BT>>

\* the separator line: SepLen dashes
Separator == [i \in 1..SepLen |-> DASH]

DistFull == <<"{", KEY, ":", "{", "\"5\"", ":", "80", ",", "\"4\"", ":", "10",
              ",", "\"3\"", ":", "5", ",", "\"2\"", ":", "3", ",", "\"1\"",
              ":", "2", "}", "}">>
DistZero == <<"{", KEY, ":", "0", "}">>
DistNested == <<"{", "\"a\"", ":", "{", KEY, ":", "{", "\"5\"", ":", "100",
                "}", "}", "}">>
DistTrailingComma == <<"{", KEY, ":", "{", "\"5\"", ":", "100", ",", "}", "}">>
OtherJson == <<"{", "\"a\"", ":", "1", "}">>

Segments == {Fence(DistFull), Fence(DistZero), Fence(DistNested),
             Fence(DistTrailingComma), Fence(OtherJson),
             Separator, <<DASH>>, <<"a">>, <<NL>>}

\* the number of segments a report is put together from
MaxSegments == 3

RECURSIVE Concats(_, _)
Concats(pieces, n) ==
    IF n = 0 THEN {<<>>}
    ELSE LET shorter == Concats(pieces, n - 1)
         IN  shorter \cup {r \o g : r \in shorter, g \in pieces}

RawReports == Concats(Segments, MaxSegments)

\* nothing computed, rendered or downloaded yet
Fresh ==
    /\ logged = FALSE
    /\ blocks = <<>>
    /\ pie = <<>>
    /\ download = NoDownload
    /\ pass = 1

\* a result has been handed in and the callback has not run
Idle(raw, name, json) ==
    /\ rawText = raw
    /\ universityName = name
    /\ scrapedJson = json
    /\ cleanText = <<>>
    /\ sentimentData = JNull
    /\ Fresh

\* the memo holds text and data, and the JSX has not been built
Memoized(text, data) ==
    /\ rawText = <<>>
    /\ universityName = <<"U">>
    /\ scrapedJson = <<"{", "}">>
    /\ cleanText = text
    /\ sentimentData = data
    /\ Fresh

\* the extraction: a result with any of the reports is handed in
Init ==
    /\ \E raw \in RawReports : Idle(raw, <<"U">>, <<"{", "}">>)
    /\ phase = "props"

Next == Memoize \/ Paint \/ Reextract

Spec == Init /\ [][Next]_vars

\* the characters of a text to format
Alphabet == {HASH, " ", DASH, STAR, EMDASH, NL, "a"}

\* the length of a text to format
MaxLen == 5

Texts == Concats({<<c>> : c \in Alphabet}, MaxLen)

\* the renderer alone: the memo holds any of the texts
InitFormat ==
    /\ \E text \in Texts : Memoized(text, JNull)
    /\ phase = "memoized"

NextFormat == Paint

SpecFormat == InitFormat /\ [][NextFormat]_vars

\* the percentages of a distribution: 100 and MaxPctSteps even steps up to it
MaxPctSteps == 2

Percentages == {k * (100 \div MaxPctSteps) : k \in 0..MaxPctSteps} \cup {100}

Distributions ==
    UNION {{JObj([k \in keys |-> JNum(f[k])]) : f \in [keys -> Percentages]} :
              keys \in SUBSET {Stars[i] : i \in 1..Len(Stars)}}

\* the pie alone: the memo holds any of the distributions
InitPie ==
    /\ \E data \in Distributions : Memoized(<<>>, data)
    /\ phase = "memoized"

NextPie == Paint

SpecPie == InitPie /\ [][NextPie]_vars

\* the length of a university name
MaxNameLen == 4

Names == Concats({<<"U">>, <<" ">>, <<"\t">>}, MaxNameLen)

\* the downloads: any name, one of two scraped payloads, one of three reports
InitExport ==
    /\ \E raw \in {<<"a">>, <<" ", "a", NL>>, <<"a", NL>> \o Fence(DistZero)},
          name \in Names,
          json \in {<<"{", "}">>, <<" ", "{", "\"a\"", ":", "1", "}", NL>>} :
             Idle(raw, name, json)
    /\ phase = "props"

NextExport == Memoize \/ Paint \/ downloadTxt \/ downloadJson

SpecExport == InitExport /\ [][NextExport]_vars

---------------------------------------------------------------------------
(* What the claims speak of, said without the operators of the model.      *)

Computed == phase \in {"memoized", "rendered"}

Contains(s, p) ==
    \E i \in 1..(Len(s) - Len(p) + 1) : SubSeq(s, i, i + Len(p) - 1) = p

AllWhite(s, a, b) == \A r \in a..b : s[r] \in WhiteSpace

\* a fence, json, white space and a brace open at i, the key follows, and
\* after it a brace, white space and a fence
BlockFrom(s, i) ==
    /\ i + 1 <= Len(s) /\ s[i] = BT /\ s[i + 1] = JSONWORD
    /\ \E j \in (i + 2)..Len(s) :
          /\ s[j] = "{"
          /\ AllWhite(s, i + 2, j - 1)
          /\ \E k \in (j + 1)..Len(s) :
                /\ s[k] = KEY
                /\ \E e \in (k + 1)..Len(s) :
                      /\ s[e] = "}"
                      /\ \E t \in (e + 1)..Len(s) :
                            s[t] = BT /\ AllWhite(s, e + 1, t - 1)

\* the text holds a fenced sentiment_distribution block
HasBlock(s) == \E i \in 1..Len(s) : BlockFrom(s, i)

\* the first fenced block: where it starts, where its brace opens and where
\* it and its closing fence end
FirstBlock(s) ==
    LET i == CHOOSE a \in 1..Len(s) :
                 BlockFrom(s, a) /\ \A b \in 1..(a - 1) : ~BlockFrom(s, b)
        j == CHOOSE a \in (i + 2)..Len(s) : s[a] = "{" /\ AllWhite(s, i + 2, a - 1)
        k == CHOOSE a \in (j + 1)..Len(s) : s[a] = KEY
        closes(e) == /\ s[e] = "}"
                     /\ \E t \in (e + 1)..Len(s) :
                           s[t] = BT /\ AllWhite(s, e + 1, t - 1)
        e == CHOOSE a \in (k + 1)..Len(s) :
                 closes(a) /\ \A b \in (k + 1)..(a - 1) : ~closes(b)
        t == CHOOSE a \in (e + 1)..Len(s) : s[a] = BT /\ AllWhite(s, e + 1, a - 1)
    IN  [from |-> i, brace |-> j, close |-> e, to |-> t]

\* the JSON text the first block holds, and the text without that block
Captured(s) == SubSeq(s, FirstBlock(s).brace, FirstBlock(s).close)
WithoutBlock(s) ==
    SubSeq(s, 1, FirstBlock(s).from - 1) \o SubSeq(s, FirstBlock(s).to + 1, Len(s))
BlockText(s) == SubSeq(s, FirstBlock(s).from, FirstBlock(s).to)

\* the block parses, or not
ParsesOk == HasBlock(rawText) /\ JSONParse(Captured(rawText)).ok
ParseFails == HasBlock(rawText) /\ ~JSONParse(Captured(rawText)).ok

\* the top-level sentiment_distribution field of the parsed block
Field == Get(JSONParse(Captured(rawText)).val, "sentiment_distribution")

\* the distribution of the block DistFull
FullDistribution ==
    JObj(("5" :> JNum(80)) @@ ("4" :> JNum(10)) @@ ("3" :> JNum(5)) @@
         ("2" :> JNum(3)) @@ ("1" :> JNum(2)))

KeyCount(s) == Cardinality({i \in 1..Len(s) : s[i] = KEY})

\* the number of lines of a text: one more than its newlines
LineCount(s) == Cardinality({i \in 1..Len(s) : s[i] = NL}) + 1

---------------------------------------------------------------------------
(* The extraction (Spec).                                                  *)

\* C1: a report that holds the valid fenced block DistFull, and the key
\* nowhere else, whatever else surrounds the block, gives that block's
\* distribution and a cleanText without the block and without separators.
C1_ValidBlockExtracted ==
    (Computed /\ pass = 1 /\ Contains(rawText, Fence(DistFull))
        /\ KeyCount(rawText) = 1)
    => /\ sentimentData = FullDistribution
       /\ ~Contains(cleanText, Fence(DistFull))
       /\ ~Contains(cleanText, Separator)

\* C2: the extraction run on its own cleanText is a no-op: the second run
\* removes nothing and returns the text it was given.
C2_ExtractionIdempotent ==
    (Computed /\ pass >= 2) => cleanText = rawText

\* C3: when the fenced block is matched and its content is not valid JSON,
\* the error is caught and logged, the distribution is absent, cleanText is
\* the raw text as it was (block and separators still there), and the
\* render completes with one element per line of that text.
C3_MalformedJsonLeavesRawText ==
    (Computed /\ ParseFails)
    => /\ logged
       /\ sentimentData = JNull
       /\ cleanText = rawText
       /\ phase = "rendered"
          => pie = <<>> /\ Len(blocks) = LineCount(rawText)

C3_Witness ==
    /\ phase = "rendered"
    /\ ParseFails
    /\ Contains(cleanText, Separator)
    /\ Contains(cleanText, Fence(DistTrailingComma))
    /\ Len(blocks) > 1

\* C4 as stated: without a fenced block the text comes back trimmed and
\* the distribution is absent.
C4_NoBlockTrimmedText ==
    (Computed /\ ~HasBlock(rawText))
    => cleanText = Trim(rawText) /\ sentimentData = JNull

\* C4 as amended: without a fenced block the text comes back exactly as it
\* was, white space at its ends included, and the distribution is absent.
C4_NoBlockTextUntouched ==
    (Computed /\ ~HasBlock(rawText))
    => cleanText = rawText /\ sentimentData = JNull /\ ~logged

C4_Witness ==
    /\ phase = "rendered"
    /\ ~HasBlock(rawText)
    /\ rawText # Trim(rawText)
    /\ cleanText = rawText
    /\ Contains(rawText, <<BT, JSONWORD>>)

\* C10 as stated: when the block parses, the distribution is the field as
\* it is, cleanText is the raw text without the block, without separators,
\* trimmed, and the distribution is absent only if the block stayed.
C10_FieldPassedThrough ==
    (Computed /\ ParsesOk)
    => /\ sentimentData = IF Field = Undefined THEN JNull ELSE Field
       /\ cleanText = Trim(RemoveSeparators(WithoutBlock(rawText)))
       /\ sentimentData = JNull => Contains(cleanText, BlockText(rawText))

\* C10 as amended: when the block parses, the distribution is the field if
\* the field is truthy and absent otherwise, and cleanText is the raw text
\* without the block, without separators, trimmed.
C10_TruthyFieldPassedThrough ==
    (Computed /\ ParsesOk)
    => /\ sentimentData = IF Truthy(Field) THEN Field ELSE JNull
       /\ cleanText = Trim(RemoveSeparators(WithoutBlock(rawText)))
       /\ ~Contains(cleanText, Separator)
       /\ ~logged

C10_Witness ==
    /\ phase = "rendered"
    /\ ParsesOk
    /\ Field = JNum(0)
    /\ sentimentData = JNull
    /\ ~Contains(cleanText, BlockText(rawText))
    /\ Len(cleanText) > SepLen

---------------------------------------------------------------------------
(* The renderer (SpecFormat).                                              *)

Newlines(s) == {p \in 1..Len(s) : s[p] = NL}

\* the k-th newline of s
NewlineAt(s, k) ==
    CHOOSE p \in Newlines(s) : Cardinality({q \in Newlines(s) : q < p}) = k - 1

\* the i-th line of s: the text between its newlines i-1 and i
LineOf(s, i) ==
    SubSeq(s,
           IF i = 1 THEN 1 ELSE NewlineAt(s, i - 1) + 1,
           IF i > Cardinality(Newlines(s)) THEN Len(s) ELSE NewlineAt(s, i) - 1)

HasPrefix(t, p) == Len(t) >= Len(p) /\ \A i \in 1..Len(p) : t[i] = p[i]

Drop(t, n) == SubSeq(t, n + 1, Len(t))

\* the block of a trimmed line, by the first rule that applies
KindOf(t) ==
    IF HasPrefix(t, <<"#", " ">>) THEN "h1"
    ELSE IF HasPrefix(t, <<"#", "#", " ">>) THEN "h2"
    ELSE IF HasPrefix(t, <<"#", "#", "#", " ">>) THEN "h3"
    ELSE IF \E m \in {"-", "*", EMDASH} : HasPrefix(t, <<m, " ">>) THEN "li"
    ELSE IF Len(t) = 0 THEN "spacer"
    ELSE "p"

\* the length of the heading prefix of each heading kind
PrefixLen(kind) == CASE kind = "h1" -> 2 [] kind = "h2" -> 3 [] kind = "h3" -> 4

\* C5: one block per line of the text, in order; the kind of each block is
\* decided on its trimmed line by the first rule that applies (heading 1,
\* 2, 3, bullet, spacer, paragraph), and the text of a heading is the
\* trimmed line without its prefix.
C5_OneBlockPerLineByPrefix ==
    phase = "rendered"
    => /\ Len(blocks) = LineCount(cleanText)
       /\ \A i \in 1..Len(blocks) :
             LET t == Trim(LineOf(cleanText, i))
             IN  /\ blocks[i].kind = KindOf(t)
                 /\ blocks[i].kind \in {"h1", "h2", "h3"}
                    => blocks[i].text = Drop(t, PrefixLen(blocks[i].kind))

C5_Witness ==
    /\ phase = "rendered"
    /\ Len(blocks) = 2
    /\ blocks[1].kind = "h1"
    /\ blocks[1].text = <<"a">>
    /\ blocks[2].kind = "spacer"
    /\ cleanText[1] = " "

RECURSIVE Flatten(_)
Flatten(ss) == IF ss = <<>> THEN <<>> ELSE Head(ss) \o Flatten(Tail(ss))

Pair(s, i) == i < Len(s) /\ s[i] = "*" /\ s[i + 1] = "*"

\* an opening pair at i that a later pair closes
Opens(s, i) == Pair(s, i) /\ \E j \in (i + 2)..Len(s) : Pair(s, j)

\* the content without the delimiters of its paired occurrences, read from
\* left to right, each opening pair closed by the nearest pair after it
RECURSIVE StripPaired(_)
StripPaired(s) ==
    IF \A i \in 1..Len(s) : ~Opens(s, i) THEN s
    ELSE LET i == CHOOSE a \in 1..Len(s) :
                      Opens(s, a) /\ \A b \in 1..(a - 1) : ~Opens(s, b)
             j == CHOOSE a \in (i + 2)..Len(s) :
                      Pair(s, a) /\ \A b \in (i + 2)..(a - 1) : ~Pair(s, b)
         IN  SubSeq(s, 1, i - 1) \o SubSeq(s, i + 2, j - 1)
             \o StripPaired(Drop(s, j + 1))

\* the content of a bullet line: the trimmed line without its marker and
\* the white space after it
BulletContent(t) ==
    LET rest == Drop(t, 1)
        first == CHOOSE a \in 1..(Len(rest) + 1) :
                     /\ a = Len(rest) + 1 \/ rest[a] \notin WhiteSpace
                     /\ \A b \in 1..(a - 1) : rest[b] \in WhiteSpace
    IN  Drop(rest, first - 1)

\* C6: the spans of a bullet or paragraph lose no text: put together in
\* order they are the content without the delimiters of its paired
\* occurrences, whatever the content, unpaired asterisks included.
C6_SpansKeepAllText ==
    phase = "rendered"
    => \A i \in 1..Len(blocks) :
          LET t == Trim(LineOf(cleanText, i))
              content == IF blocks[i].kind = "li" THEN BulletContent(t) ELSE t
              texts == [k \in 1..Len(blocks[i].spans) |-> blocks[i].spans[k].text]
          IN  blocks[i].kind \in {"li", "p"}
              => Flatten(texts) = StripPaired(content)

---------------------------------------------------------------------------
(* The pie (SpecPie).                                                      *)

\* the star of the i-th segment: 5, 4, 3, 2, 1
StarAt(i) == CASE i = 1 -> "5" [] i = 2 -> "4" [] i = 3 -> "3"
               [] i = 4 -> "2" [] i = 5 -> "1"

\* the percentage a distribution gives a star, 0 when it has none
PercentOf(data, star) == IF star \in DOMAIN data.o THEN data.o[star].n ELSE 0

RECURSIVE SumTo(_, _)
SumTo(data, i) == IF i = 0 THEN 0 ELSE PercentOf(data, StarAt(i)) + SumTo(data, i - 1)

C8_SingleSegmentAndEmpty ==
    phase = "rendered"
    => /\ sentimentData = JObj("5" :> JNum(100))
          => pie = <<[color |-> "#10b981", from |-> 0, to |-> 36000]>>
       /\ sentimentData = JObj(NoFields)
          => /\ Len(pie) = 5
             /\ \A i \in 1..5 : pie[i].to = pie[i].from

\* C8 as amended: for the distribution that holds only star 5 at 100 the
\* result is five segments, the star-5 color from 0 to 360 degrees and then
\* the four others of width zero at 360; for the empty distribution it is
\* five segments of width zero, all at 0.
C8_FullStarFiveAndEmpty ==
    phase = "rendered"
    => /\ sentimentData = JObj("5" :> JNum(100))
          => /\ Len(pie) = 5
             /\ pie[1] = [color |-> "#10b981", from |-> 0, to |-> 36000]
             /\ \A i \in 2..5 : pie[i].from = 36000 /\ pie[i].to = 36000
       /\ sentimentData = JObj(NoFields)
          => /\ Len(pie) = 5
             /\ \A i \in 1..5 : pie[i].from = 0 /\ pie[i].to = 0

C8_Witness ==
    /\ phase = "rendered"
    /\ sentimentData = JObj("5" :> JNum(100))
    /\ pie[1].to = 36000
    /\ Len(pie) = 5

---------------------------------------------------------------------------
(* The downloads (SpecExport).                                             *)

\* the name with every space turned into an underscore
RECURSIVE EachSpace(_)
EachSpace(name) ==
    IF name = <<>> THEN <<>>
    ELSE <<IF Head(name) = " " THEN "_" ELSE Head(name)>> \o EachSpace(Tail(name))

\* the name with every maximal run of white space turned into one underscore
RunsToUnderscore(name) ==
    LET mark == [i \in 1..Len(name) |->
                    IF name[i] \notin WhiteSpace THEN <<name[i]>>
                    ELSE IF i = 1 \/ name[i - 1] \notin WhiteSpace THEN <<"_">>
                    ELSE <<>>]
    IN  Flatten(mark)

Suffix == ("text/plain" :> "_Analysis.txt") @@ ("application/json" :> "_Data.json")

Payload == IF download.mime = "text/plain" THEN cleanText ELSE scrapedJson

\* C9 as stated, for the names whose only white space is spaces: the text
\* export holds cleanText and the JSON export holds scrapedJson, unchanged,
\* and the file is named after the university name with each space
\* replaced by an underscore.
C9_EachSpaceOneUnderscore ==
    (download # NoDownload
        /\ \A i \in 1..Len(universityName) : universityName[i] \in {"U", " "})
    => /\ download.content = Payload
       /\ download.name = EachSpace(universityName) \o <<Suffix[download.mime]>>

\* C9 as amended: the same contents, and the file is named after the
\* university name with every maximal run of white space (spaces, tabs,
\* newlines) replaced by one underscore.
C9_WhitespaceRunsOneUnderscore ==
    download # NoDownload
    => /\ download.content = Payload
       /\ download.name = RunsToUnderscore(universityName) \o <<Suffix[download.mime]>>

C9_Witness ==
    /\ download.mime = "application/json"
    /\ Contains(universityName, <<" ", " ">>)
    /\ Contains(universityName, <<"\t">>)
    /\ download.content # <<"{", "}">>
    /\ download.content = scrapedJson
    /\ cleanText # rawText

====
